---- MODULE Spec2Model ----
(***************************************************************************)
(* The AWB statistics controller of components/esp_driver_isp/src/isp_awb.c *)
(* as a state machine.  One controller, created and attached to its        *)
(* processor, is driven by NumTasks RTOS tasks that call the public API    *)
(* concurrently, by the statistics hardware and by the interrupt handler.  *)
(*                                                                         *)
(* The API functions take no lock around their bodies, so a task can be    *)
(* preempted (or run on the other core) between any two accesses of the    *)
(* controller.  Each function is therefore a sequence of steps, one per    *)
(* access of shared state, and pc[t] is the position of task t.  The       *)
(* FreeRTOS primitives (xSemaphoreTake/Give, xQueueReset/Receive/          *)
(* OverwriteFromISR) are atomic.                                           *)
(*                                                                         *)
(* The life cycle (create, delete, the processor's slot) and the callback  *)
(* registration have specifications of their own, LifeSpec and             *)
(* RegisterSpec, further down.                                             *)
(***************************************************************************)
EXTENDS Integers, Sequences, FiniteSets, TLC

\* Number of application tasks calling the driver.
NumTasks == 2

Tasks == 1..NumTasks

\* Number of controller objects the application ever allocates.
NumCtlrs == 3

Ctlrs == 1..NumCtlrs

\* How the allocations of lines 80-85 end: all succeed, the calloc of line 80 fails,
\* or the queue or the semaphore cannot be created.
AllocOutcomes == {"ok", "no_mem", "no_mem_obj"}

\* What the configuration checks of lines 102-114 find: nothing, or the first of an
\* invalid window, an invalid luminance range, a red/green range and a blue/green
\* range with min >= max or min < 0.
CfgOutcomes == {"ok", "window", "luminance", "rg", "bg"}

InvalidCfgs == CfgOutcomes \ {"ok"}

\* Callback and user_data pointers handed to register_event_callbacks; 0 is NULL.
CallbackPtrs == {0, 1, 2}
UserPtrs == {0, 1}

\* FreeRTOS: portMAX_DELAY, the tick count that means "wait for ever".  It is
\* 0xffffffff in FreeRTOS; the largest integer of the checker stands for it, since
\* all the code uses of it is that it is positive and no finite wait.
portMAX_DELAY == 2147483647

\* FreeRTOS: the tick rate pdMS_TO_TICKS divides by (CONFIG_FREERTOS_HZ, 100 by default).
configTICK_RATE_HZ == 100

\* The timeout_ms arguments handed to get_oneshot_statistics:
\* block forever, poll, shorter than one tick, and a real wait.
TimeoutMs == {-1, 0, 5, 1000}

pdMS_TO_TICKS(ms) == (ms * configTICK_RATE_HZ) \div 1000

\* isp_awb.c:173
TicksOf(timeout_ms) ==
    IF timeout_ms < 0 THEN portMAX_DELAY ELSE pdMS_TO_TICKS(timeout_ms)

VARIABLES
    fsm,           \* awb_ctlr->fsm: "INIT", "ENABLE" or "START"
    stat_lock,     \* awb_ctlr->stat_lock: TRUE when the binary semaphore holds its token
    evt_que,       \* awb_ctlr->evt_que: a queue of length 1, <<>> or <<result>>
    intr_on,       \* esp_intr_enable / esp_intr_disable of awb_ctlr->intr_handle
    clk_en,        \* isp_ll_awb_clk_enable
    int_ena,       \* isp_ll_enable_intr(ISP_LL_EVENT_AWB_MASK)
    int_raw,       \* the AWB FDONE bit of the interrupt status register
    awb_en,        \* the value last written by isp_ll_awb_enable
    win,           \* the sampling window in progress: <<>> or <<its result>>
    acc,           \* the accumulator registers: the result of the last finished window
    isr_pc,        \* position of s_isp_awb_default_isr: "idle", "check", "rearm"
    op,            \* op[t]: the API function task t called last
    pc,            \* pc[t]: position of task t inside its current call
    ticks,         \* ticks[t]: the local variable of get_oneshot_statistics
    ret,           \* ret[t]: what task t's last call returned
    out_res,       \* out_res[t]: the result buffer of t's running call, <<>> until received
    cont,          \* a continuous session is open (taken by start, not yet stopped)
    took,          \* took[t]: xSemaphoreTake of line 175 gave task t the token, and
                   \* t has not given it back yet (the code drops this return value)
    slot,          \* isp_proc->awb_ctlr: 0 (NULL) or the controller that claimed it
    mem,           \* mem[c]: controller object c is "unused", "building" (inside
                   \* esp_isp_new_awb_controller), "live" (handed out) or "freed"
    intr,          \* intr[c]: c->intr_handle is allocated (the ISR is registered)
    hw_by,         \* the controllers whose creation has run lines 99-101
    alg_mode,      \* the value last written by isp_ll_awb_enable_algorithm_mode
    lc,            \* lc[t]: the controller task t's create or delete call works on
    cur,           \* the handle the application uses: the controller handed out last
    cbs,           \* awb_ctlr->cbs.on_statistics_done of cur (0 is NULL)
    user_data      \* awb_ctlr->user_data of cur (0 is NULL)

vars == <<fsm, stat_lock, evt_que, intr_on, clk_en, int_ena, int_raw, awb_en, win,
          acc, isr_pc, op, pc, ticks, ret, out_res, cont, took,
          slot, mem, intr, hw_by, alg_mode, lc, cur, cbs, user_data>>

\* The processor's slot and the controller objects; the registered callback.
lifeVars == <<slot, mem, intr, hw_by, alg_mode, lc, cur>>
cbVars == <<cbs, user_data>>


(***************************************************************************)
(* A statistics result is modelled by its age alone: it stands for the set  *)
(* of tasks whose running get_oneshot_statistics call had already passed   *)
(* its xSemaphoreTake when the window that produced it was triggered.      *)
(***************************************************************************)

\* The positions inside each function.
EnablePcs  == {"E_arm", "E_give", "E_fsm"}
DisablePcs == {"D_disarm", "D_fsm", "D_take"}
OneshotPcs == {"O_take", "O_start", "O_reset", "O_trigger", "O_recv", "O_stop",
               "O_enable", "O_give"}
StartPcs   == {"C_take", "C_start", "C_trigger"}
StopPcs    == {"S_stop", "S_enable", "S_give"}
NewPcs     == {"N_claim", "N_intr", "N_hw", "N_validate", "N_declaim", "N_free"}
DelPcs     == {"X_fsm", "X_declaim", "X_alg", "X_free"}
RegisterPcs == {"R_cbs", "R_user"}

\* Positions of get_oneshot_statistics after xSemaphoreTake (line 175) has returned.
OneshotAfterTake == {"O_start", "O_reset", "O_trigger", "O_recv", "O_stop", "O_enable", "O_give"}

\* Positions of get_oneshot_statistics where it has written fsm = START (177..189).
OneshotStarted == {"O_reset", "O_trigger", "O_recv", "O_stop", "O_enable"}

\* Positions of start_continuous_statistics after its xSemaphoreTake succeeded.
ContinuousAfterTake == {"C_start", "C_trigger"}

\* The window a write of isp_ll_awb_enable(true) starts now.
NewWindow == <<{u \in Tasks : pc[u] \in OneshotAfterTake}>>

\* Task t's xSemaphoreTake returns: every result that exists by now is older than that.
Older(t, q) == IF q = <<>> THEN <<>> ELSE <<q[1] \ {t}>>

TypeOK ==
    /\ fsm \in {"INIT", "ENABLE", "START"}
    /\ stat_lock \in BOOLEAN
    /\ evt_que \in {<<>>} \cup {<<r>> : r \in SUBSET Tasks}
    /\ intr_on \in BOOLEAN /\ clk_en \in BOOLEAN /\ int_ena \in BOOLEAN
    /\ int_raw \in BOOLEAN /\ awb_en \in BOOLEAN
    /\ win \in {<<>>} \cup {<<r>> : r \in SUBSET Tasks}
    /\ acc \in SUBSET Tasks
    /\ isr_pc \in {"idle", "check", "rearm"}
    /\ op \in [Tasks -> {"none", "enable", "disable", "oneshot", "start", "stop",
                         "new", "del", "register"}]
    /\ pc \in [Tasks -> {"idle"} \cup EnablePcs \cup DisablePcs \cup OneshotPcs
                                  \cup StartPcs \cup StopPcs \cup NewPcs \cup DelPcs
                                  \cup RegisterPcs]
    /\ ticks \in [Tasks -> {TicksOf(m) : m \in TimeoutMs}]
    /\ ret \in [Tasks -> {"none", "OK", "INVALID_STATE", "TIMEOUT", "INVALID_ARG",
                          "NO_MEM", "NOT_FOUND"}]
    /\ out_res \in [Tasks -> {<<>>} \cup {<<r>> : r \in SUBSET Tasks}]
    /\ cont \in BOOLEAN
    /\ took \in [Tasks -> BOOLEAN]
    /\ slot \in {0} \cup Ctlrs
    /\ mem \in [Ctlrs -> {"unused", "building", "live", "freed"}]
    /\ intr \in [Ctlrs -> BOOLEAN]
    /\ hw_by \in SUBSET Ctlrs
    /\ alg_mode \in BOOLEAN
    /\ lc \in [Tasks -> {0} \cup Ctlrs]
    /\ cur \in {0} \cup Ctlrs
    /\ cbs \in CallbackPtrs
    /\ user_data \in UserPtrs

\* The first controller object has been created with a valid configuration and handed
\* out (lines 80-118): it owns the slot, its interrupt is allocated, the hardware is
\* configured, no callback is registered.
Constructed ==
    /\ slot = 1
    /\ mem = [c \in Ctlrs |-> IF c = 1 THEN "live" ELSE "unused"]
    /\ intr = [c \in Ctlrs |-> c = 1]
    /\ hw_by = {1}
    /\ alg_mode = TRUE
    /\ lc = [t \in Tasks |-> 0]
    /\ cur = 1
    /\ cbs = 0
    /\ user_data = 0

\* esp_isp_new_awb_controller has returned ESP_OK: calloc'ed controller, empty queue,
\* binary semaphore created empty, fsm INIT, interrupt allocated disabled, engine off.
Init ==
    /\ fsm = "INIT"
    /\ stat_lock = FALSE
    /\ evt_que = <<>>
    /\ intr_on = FALSE /\ clk_en = FALSE /\ int_ena = FALSE
    /\ int_raw = FALSE
    /\ awb_en = FALSE
    /\ win = <<>>
    /\ acc = {}
    /\ isr_pc = "idle"
    /\ op = [t \in Tasks |-> "none"]
    /\ pc = [t \in Tasks |-> "idle"]
    /\ ticks = [t \in Tasks |-> 0]
    /\ ret = [t \in Tasks |-> "none"]
    /\ out_res = [t \in Tasks |-> <<>>]
    /\ cont = FALSE
    /\ took = [t \in Tasks |-> FALSE]
    /\ Constructed

LifecyclePcs == NewPcs \cup DelPcs

\* The handle the application holds is good (handed out, not freed), and no create or
\* delete call is running: the application does not use a handle while a controller
\* is being made or destroyed.
HandleUsable ==
    /\ cur # 0 /\ mem[cur] = "live"
    /\ \A u \in Tasks : pc[u] \notin LifecyclePcs

\* No call on the handle is running: the application may create or delete.
HandleAtRest == \A u \in Tasks : pc[u] \in {"idle"} \cup LifecyclePcs

\* Task t calls API function f with a valid handle.  When the state check of f lets
\* the call through it goes on at position p, otherwise it returns
\* ESP_ERR_INVALID_STATE at once.
Call(t, f, allowed, p) ==
    /\ pc[t] = "idle"
    /\ HandleUsable
    /\ op' = [op EXCEPT ![t] = f]
    /\ out_res' = [out_res EXCEPT ![t] = <<>>]
    /\ IF allowed
         THEN /\ pc' = [pc EXCEPT ![t] = p]
              /\ ret' = [ret EXCEPT ![t] = "none"]
         ELSE /\ ret' = [ret EXCEPT ![t] = "INVALID_STATE"]
              /\ UNCHANGED pc

\* The call of task t returns code r.
Return(t, r) ==
    /\ pc' = [pc EXCEPT ![t] = "idle"]
    /\ ret' = [ret EXCEPT ![t] = r]
    /\ ticks' = [ticks EXCEPT ![t] = 0]
    /\ UNCHANGED op

\* Task t moves on to position p of its call.
Goto(t, p) == pc' = [pc EXCEPT ![t] = p] /\ UNCHANGED op

(***************************************************************************)
(* esp_isp_awb_controller_enable, lines 141-153                            *)
(***************************************************************************)

\* A check that lets every state but Started through.
EnableAllowedUnlessStarted == fsm # "START"

\* lines 141-144
EnableAllowed == fsm = "INIT"

EnableCheck(t) ==
    /\ Call(t, "enable", EnableAllowed, "E_arm")
    /\ UNCHANGED ticks
    /\ UNCHANGED <<fsm, stat_lock, evt_que, intr_on, clk_en, int_ena, int_raw, awb_en,
                   win, acc, isr_pc, cont, took>>
    /\ UNCHANGED <<lifeVars, cbVars>>

\* lines 146-148
EnableArm(t) ==
    /\ pc[t] = "E_arm"
    /\ intr_on' = TRUE /\ clk_en' = TRUE /\ int_ena' = TRUE
    /\ Goto(t, "E_give")
    /\ UNCHANGED <<fsm, stat_lock, evt_que, int_raw, awb_en, win, acc, isr_pc,
                   ticks, ret, out_res, cont, took>>
    /\ UNCHANGED <<lifeVars, cbVars>>

\* line 149: xSemaphoreGive on a binary semaphore leaves a token already there as it is
EnableGive(t) ==
    /\ pc[t] = "E_give"
    /\ stat_lock' = TRUE
    /\ Goto(t, "E_fsm")
    /\ UNCHANGED <<fsm, evt_que, intr_on, clk_en, int_ena, int_raw, awb_en, win, acc,
                   isr_pc, ticks, ret, out_res, cont, took>>
    /\ UNCHANGED <<lifeVars, cbVars>>

\* lines 150-152
EnableSetFsm(t) ==
    /\ pc[t] = "E_fsm"
    /\ fsm' = "ENABLE"
    /\ Return(t, "OK")
    /\ UNCHANGED <<stat_lock, evt_que, intr_on, clk_en, int_ena, int_raw, awb_en, win,
                   acc, isr_pc, out_res, cont, took>>
    /\ UNCHANGED <<lifeVars, cbVars>>

(***************************************************************************)
(* esp_isp_awb_controller_disable, lines 155-167                           *)
(***************************************************************************)

\* lines 155-158
DisableAllowed == fsm = "ENABLE"

DisableCheck(t) ==
    /\ Call(t, "disable", DisableAllowed, "D_disarm")
    /\ UNCHANGED ticks
    /\ UNCHANGED <<fsm, stat_lock, evt_que, intr_on, clk_en, int_ena, int_raw, awb_en,
                   win, acc, isr_pc, cont, took>>
    /\ UNCHANGED <<lifeVars, cbVars>>

\* lines 160-162
DisableDisarm(t) ==
    /\ pc[t] = "D_disarm"
    /\ int_ena' = FALSE /\ clk_en' = FALSE /\ intr_on' = FALSE
    /\ Goto(t, "D_fsm")
    /\ UNCHANGED <<fsm, stat_lock, evt_que, int_raw, awb_en, win, acc, isr_pc,
                   ticks, ret, out_res, cont, took>>
    /\ UNCHANGED <<lifeVars, cbVars>>

\* line 163
DisableSetFsm(t) ==
    /\ pc[t] = "D_fsm"
    /\ fsm' = "INIT"
    /\ Goto(t, "D_take")
    /\ UNCHANGED <<stat_lock, evt_que, intr_on, clk_en, int_ena, int_raw, awb_en, win,
                   acc, isr_pc, ticks, ret, out_res, cont, took>>
    /\ UNCHANGED <<lifeVars, cbVars>>

\* lines 164-166: xSemaphoreTake(stat_lock, 0), its result ignored
DisableTake(t) ==
    /\ pc[t] = "D_take"
    /\ stat_lock' = FALSE
    /\ Return(t, "OK")
    /\ UNCHANGED <<fsm, evt_que, intr_on, clk_en, int_ena, int_raw, awb_en, win, acc,
                   isr_pc, out_res, cont, took>>
    /\ UNCHANGED <<lifeVars, cbVars>>

(***************************************************************************)
(* esp_isp_awb_controller_get_oneshot_statistics, lines 169-193            *)
(***************************************************************************)

\* lines 169-173: the state check, and the caller's timeout_ms becomes ticks
OneshotAllowed == fsm = "ENABLE"

OneshotCheck(t) ==
    /\ Call(t, "oneshot", OneshotAllowed, "O_take")
    /\ IF OneshotAllowed
         THEN \E timeout_ms \in TimeoutMs :
                 ticks' = [ticks EXCEPT ![t] = TicksOf(timeout_ms)]
         ELSE UNCHANGED ticks
    /\ UNCHANGED <<fsm, stat_lock, evt_que, intr_on, clk_en, int_ena, int_raw, awb_en,
                   win, acc, isr_pc, cont, took>>
    /\ UNCHANGED <<lifeVars, cbVars>>

\* line 175, xSemaphoreTake returns pdTRUE: the token is taken
OneshotTake(t) ==
    /\ pc[t] = "O_take"
    /\ stat_lock
    /\ stat_lock' = FALSE
    /\ took' = [took EXCEPT ![t] = TRUE]
    /\ Goto(t, "O_start")
    /\ evt_que' = Older(t, evt_que) /\ win' = Older(t, win) /\ acc' = acc \ {t}
    /\ UNCHANGED <<fsm, intr_on, clk_en, int_ena, int_raw, awb_en, isr_pc,
                   ticks, ret, out_res, cont>>
    /\ UNCHANGED <<lifeVars, cbVars>>

\* What the code does when xSemaphoreTake of line 175 returns pdFALSE: the result is
\* not looked at, the function goes on to line 177.
OneshotAfterFailedTake(t) ==
    /\ Goto(t, "O_start")
    /\ evt_que' = Older(t, evt_que) /\ win' = Older(t, win) /\ acc' = acc \ {t}
    /\ UNCHANGED <<ret, ticks>>

\* line 175, xSemaphoreTake returns pdFALSE: no token and ticks is 0, or no token
\* came within a finite number of ticks
OneshotTakeTimeout(t) ==
    /\ pc[t] = "O_take"
    /\ ~stat_lock
    /\ ticks[t] # portMAX_DELAY
    /\ OneshotAfterFailedTake(t)
    /\ UNCHANGED <<fsm, stat_lock, intr_on, clk_en, int_ena, int_raw, awb_en, isr_pc,
                   out_res, cont, took>>
    /\ UNCHANGED <<lifeVars, cbVars>>

\* line 177
OneshotSetStart(t) ==
    /\ pc[t] = "O_start"
    /\ fsm' = "START"
    /\ Goto(t, "O_reset")
    /\ UNCHANGED <<stat_lock, evt_que, intr_on, clk_en, int_ena, int_raw, awb_en, win,
                   acc, isr_pc, ticks, ret, out_res, cont, took>>
    /\ UNCHANGED <<lifeVars, cbVars>>

\* line 180
OneshotReset(t) ==
    /\ pc[t] = "O_reset"
    /\ evt_que' = <<>>
    /\ Goto(t, "O_trigger")
    /\ UNCHANGED <<fsm, stat_lock, intr_on, clk_en, int_ena, int_raw, awb_en, win,
                   acc, isr_pc, ticks, ret, out_res, cont, took>>
    /\ UNCHANGED <<lifeVars, cbVars>>

\* A trigger that writes isp_ll_awb_enable(false): no window is started.
OneshotTriggerOff(t) ==
    /\ pc[t] = "O_trigger"
    /\ awb_en' = FALSE /\ win' = <<>>
    /\ Goto(t, "O_recv")
    /\ UNCHANGED <<fsm, stat_lock, evt_que, intr_on, clk_en, int_ena, int_raw,
                   acc, isr_pc, ticks, ret, out_res, cont, took>>
    /\ UNCHANGED <<lifeVars, cbVars>>

\* line 182
OneshotTrigger(t) ==
    /\ pc[t] = "O_trigger"
    /\ awb_en' = TRUE /\ win' = NewWindow
    /\ Goto(t, "O_recv")
    /\ UNCHANGED <<fsm, stat_lock, evt_que, intr_on, clk_en, int_ena, int_raw,
                   acc, isr_pc, ticks, ret, out_res, cont, took>>
    /\ UNCHANGED <<lifeVars, cbVars>>

\* line 184 (and 178): with ticks = 0 the queue is not read; otherwise xQueueReceive
\* returns pdTRUE with the queued result
OneshotRecv(t) ==
    /\ pc[t] = "O_recv"
    /\ IF ticks[t] > 0
         THEN /\ evt_que # <<>>
              /\ out_res' = [out_res EXCEPT ![t] = evt_que]
              /\ evt_que' = <<>>
         ELSE UNCHANGED <<evt_que, out_res>>
    /\ Goto(t, "O_stop")
    /\ ret' = [ret EXCEPT ![t] = "OK"]
    /\ UNCHANGED <<fsm, stat_lock, intr_on, clk_en, int_ena, int_raw, awb_en, win,
                   acc, isr_pc, ticks, cont, took>>
    /\ UNCHANGED <<lifeVars, cbVars>>

\* lines 184-186: xQueueReceive returns pdFALSE after a finite number of ticks
OneshotRecvTimeout(t) ==
    /\ pc[t] = "O_recv"
    /\ ticks[t] > 0 /\ ticks[t] # portMAX_DELAY
    /\ evt_que = <<>>
    /\ Goto(t, "O_stop")
    /\ ret' = [ret EXCEPT ![t] = "TIMEOUT"]
    /\ UNCHANGED <<fsm, stat_lock, evt_que, intr_on, clk_en, int_ena, int_raw, awb_en,
                   win, acc, isr_pc, ticks, out_res, cont, took>>
    /\ UNCHANGED <<lifeVars, cbVars>>

\* line 188
OneshotStop(t) ==
    /\ pc[t] = "O_stop"
    /\ awb_en' = FALSE /\ win' = <<>>
    /\ Goto(t, "O_enable")
    /\ UNCHANGED <<fsm, stat_lock, evt_que, intr_on, clk_en, int_ena, int_raw,
                   acc, isr_pc, ticks, ret, out_res, cont, took>>
    /\ UNCHANGED <<lifeVars, cbVars>>

\* line 189
OneshotSetEnable(t) ==
    /\ pc[t] = "O_enable"
    /\ fsm' = "ENABLE"
    /\ Goto(t, "O_give")
    /\ UNCHANGED <<stat_lock, evt_que, intr_on, clk_en, int_ena, int_raw, awb_en, win,
                   acc, isr_pc, ticks, ret, out_res, cont, took>>
    /\ UNCHANGED <<lifeVars, cbVars>>

\* lines 190-192: the function returns the ret of line 178 or 185.  The call is
\* over: its buffer is the caller's again, and no result is newer than a take of it.
OneshotGive(t) ==
    /\ pc[t] = "O_give"
    /\ stat_lock' = TRUE
    /\ pc' = [pc EXCEPT ![t] = "idle"]
    /\ ticks' = [ticks EXCEPT ![t] = 0]
    /\ UNCHANGED op
    /\ out_res' = [out_res EXCEPT ![t] = <<>>]
    /\ evt_que' = Older(t, evt_que) /\ win' = Older(t, win) /\ acc' = acc \ {t}
    /\ took' = [took EXCEPT ![t] = FALSE]
    /\ UNCHANGED <<fsm, intr_on, clk_en, int_ena, int_raw, awb_en, isr_pc, ret, cont>>
    /\ UNCHANGED <<lifeVars, cbVars>>

(***************************************************************************)
(* esp_isp_awb_controller_start_continuous_statistics, lines 195-208       *)
(***************************************************************************)

\* lines 195-198
StartAllowed == fsm = "ENABLE"

StartCheck(t) ==
    /\ Call(t, "start", StartAllowed, "C_take")
    /\ UNCHANGED ticks
    /\ UNCHANGED <<fsm, stat_lock, evt_que, intr_on, clk_en, int_ena, int_raw, awb_en,
                   win, acc, isr_pc, cont, took>>
    /\ UNCHANGED <<lifeVars, cbVars>>

\* The result of xSemaphoreTake not looked at, as at line 175.
StartBusyIgnored == FALSE

\* line 200: xSemaphoreTake(stat_lock, 0) == pdFALSE
StartBusy == ~stat_lock

\* lines 200-203
StartTake(t) ==
    /\ pc[t] = "C_take"
    /\ IF StartBusy
         THEN Return(t, "INVALID_STATE") /\ UNCHANGED <<stat_lock, cont>>
         ELSE /\ stat_lock' = FALSE
              /\ cont' = TRUE
              /\ Goto(t, "C_start")
              /\ UNCHANGED <<ret, ticks>>
    /\ UNCHANGED <<fsm, evt_que, intr_on, clk_en, int_ena, int_raw, awb_en, win, acc,
                   isr_pc, out_res, took>>
    /\ UNCHANGED <<lifeVars, cbVars>>

\* line 204
StartSetStart(t) ==
    /\ pc[t] = "C_start"
    /\ fsm' = "START"
    /\ Goto(t, "C_trigger")
    /\ UNCHANGED <<stat_lock, evt_que, intr_on, clk_en, int_ena, int_raw, awb_en, win,
                   acc, isr_pc, ticks, ret, out_res, cont, took>>
    /\ UNCHANGED <<lifeVars, cbVars>>

\* lines 205-207
StartTrigger(t) ==
    /\ pc[t] = "C_trigger"
    /\ awb_en' = TRUE /\ win' = NewWindow
    /\ Return(t, "OK")
    /\ UNCHANGED <<fsm, stat_lock, evt_que, intr_on, clk_en, int_ena, int_raw,
                   acc, isr_pc, out_res, cont, took>>
    /\ UNCHANGED <<lifeVars, cbVars>>

(***************************************************************************)
(* esp_isp_awb_controller_stop_continuous_statistics, lines 210-220        *)
(***************************************************************************)

\* lines 210-213
StopAllowed == fsm = "START"

StopCheck(t) ==
    /\ Call(t, "stop", StopAllowed, "S_stop")
    /\ UNCHANGED ticks
    /\ UNCHANGED <<fsm, stat_lock, evt_que, intr_on, clk_en, int_ena, int_raw, awb_en,
                   win, acc, isr_pc, cont, took>>
    /\ UNCHANGED <<lifeVars, cbVars>>

\* line 215
StopStop(t) ==
    /\ pc[t] = "S_stop"
    /\ awb_en' = FALSE /\ win' = <<>>
    /\ Goto(t, "S_enable")
    /\ UNCHANGED <<fsm, stat_lock, evt_que, intr_on, clk_en, int_ena, int_raw,
                   acc, isr_pc, ticks, ret, out_res, cont, took>>
    /\ UNCHANGED <<lifeVars, cbVars>>

\* line 216
StopSetEnable(t) ==
    /\ pc[t] = "S_enable"
    /\ fsm' = "ENABLE"
    /\ Goto(t, "S_give")
    /\ UNCHANGED <<stat_lock, evt_que, intr_on, clk_en, int_ena, int_raw, awb_en, win,
                   acc, isr_pc, ticks, ret, out_res, cont, took>>
    /\ UNCHANGED <<lifeVars, cbVars>>

\* lines 217-219
StopGive(t) ==
    /\ pc[t] = "S_give"
    /\ stat_lock' = TRUE
    /\ cont' = FALSE
    /\ Return(t, "OK")
    /\ UNCHANGED <<fsm, evt_que, intr_on, clk_en, int_ena, int_raw, awb_en, win, acc,
                   isr_pc, out_res, took>>
    /\ UNCHANGED <<lifeVars, cbVars>>

(***************************************************************************)
(* The statistics hardware: a window started by isp_ll_awb_enable(true)    *)
(* finishes, latches its sums in the accumulators and raises FDONE.        *)
(***************************************************************************)

HwFrameDone ==
    /\ win # <<>>
    /\ clk_en
    /\ acc' = win[1]
    /\ win' = <<>>
    /\ int_raw' = TRUE
    /\ UNCHANGED <<fsm, stat_lock, evt_que, intr_on, clk_en, int_ena, awb_en, isr_pc,
                   op, pc, ticks, ret, out_res, cont, took>>
    /\ UNCHANGED <<lifeVars, cbVars>>

(***************************************************************************)
(* s_isp_awb_default_isr, lines 225-262                                    *)
(***************************************************************************)

\* lines 230-252: the event is read and cleared, the accumulators are read and the
\* result overwrites the queue's entry
IsrFdone ==
    /\ isr_pc = "idle"
    /\ int_raw /\ int_ena /\ intr_on
    /\ int_raw' = FALSE
    /\ evt_que' = <<acc>>
    /\ isr_pc' = "check"
    /\ UNCHANGED <<fsm, stat_lock, intr_on, clk_en, int_ena, awb_en, win, acc,
                   op, pc, ticks, ret, out_res, cont, took>>
    /\ UNCHANGED <<lifeVars, cbVars>>

\* line 254
IsrRearmWanted == fsm = "START"

IsrCheck ==
    /\ isr_pc = "check"
    /\ isr_pc' = IF IsrRearmWanted THEN "rearm" ELSE "idle"
    /\ UNCHANGED <<fsm, stat_lock, evt_que, intr_on, clk_en, int_ena, int_raw, awb_en,
                   win, acc, op, pc, ticks, ret, out_res, cont, took>>
    /\ UNCHANGED <<lifeVars, cbVars>>

\* line 255
IsrRearm ==
    /\ isr_pc = "rearm"
    /\ awb_en' = TRUE /\ win' = NewWindow
    /\ isr_pc' = "idle"
    /\ UNCHANGED <<fsm, stat_lock, evt_que, intr_on, clk_en, int_ena, int_raw,
                   acc, op, pc, ticks, ret, out_res, cont, took>>
    /\ UNCHANGED <<lifeVars, cbVars>>

Isr == IsrFdone \/ IsrCheck \/ IsrRearm

(***************************************************************************)
(* Any number of tasks call the API in any order and at any time.          *)
(***************************************************************************)

Enable(t) == EnableCheck(t) \/ EnableArm(t) \/ EnableGive(t) \/ EnableSetFsm(t)

Disable(t) == DisableCheck(t) \/ DisableDisarm(t) \/ DisableSetFsm(t) \/ DisableTake(t)

Oneshot(t) ==
    \/ OneshotCheck(t) \/ OneshotTake(t) \/ OneshotTakeTimeout(t)
    \/ OneshotSetStart(t) \/ OneshotReset(t) \/ OneshotTrigger(t) \/ OneshotRecv(t)
    \/ OneshotRecvTimeout(t) \/ OneshotStop(t) \/ OneshotSetEnable(t) \/ OneshotGive(t)

StartContinuous(t) == StartCheck(t) \/ StartTake(t) \/ StartSetStart(t) \/ StartTrigger(t)

StopContinuous(t) == StopCheck(t) \/ StopStop(t) \/ StopSetEnable(t) \/ StopGive(t)

Next ==
    \/ \E t \in Tasks : Enable(t)
    \/ \E t \in Tasks : Disable(t)
    \/ \E t \in Tasks : Oneshot(t)
    \/ \E t \in Tasks : StartContinuous(t)
    \/ \E t \in Tasks : StopContinuous(t)
    \/ HwFrameDone
    \/ Isr

Spec == Init /\ [][Next]_vars

(***************************************************************************)
(* One application task alone drives the controller; the hardware and the  *)
(* interrupt handler run beside it.  With a single caller the semaphore    *)
(* is never found empty at line 175 (SoloTakeNeverWaits), so the failed    *)
(* take is no step of this specification.                                  *)
(***************************************************************************)

Caller == CHOOSE t \in Tasks : TRUE

OneshotSolo(t) ==
    \/ OneshotCheck(t) \/ OneshotTake(t)
    \/ OneshotSetStart(t) \/ OneshotReset(t) \/ OneshotTrigger(t) \/ OneshotRecv(t)
    \/ OneshotRecvTimeout(t) \/ OneshotStop(t) \/ OneshotSetEnable(t) \/ OneshotGive(t)

NextSolo ==
    \/ Enable(Caller)
    \/ Disable(Caller)
    \/ OneshotSolo(Caller)
    \/ StartContinuous(Caller)
    \/ StopContinuous(Caller)
    \/ HwFrameDone
    \/ Isr

SoloSpec == Init /\ [][NextSolo]_vars

\* Under SoloSpec: the take of line 175 finds the token.
SoloTakeNeverWaits == pc[Caller] = "O_take" => stat_lock

(***************************************************************************)
(* Every task calls start_continuous_statistics once, all at the same time, *)
(* on an enabled idle controller.                                          *)
(***************************************************************************)

\* The controller is enabled and idle: enable has returned ESP_OK and every sampling
\* session since has ended.  The queue is empty or still holds the last result of an
\* earlier session, and the FDONE event of that session's last window may still be
\* pending (EnabledIdleWithLeftover is such a state of Spec).
InitEnabled ==
    /\ fsm = "ENABLE"
    /\ stat_lock = TRUE
    /\ evt_que \in {<<>>, <<{}>>}
    /\ intr_on = TRUE /\ clk_en = TRUE /\ int_ena = TRUE
    /\ int_raw \in BOOLEAN
    /\ awb_en = FALSE
    /\ win = <<>>
    /\ acc = {}
    /\ isr_pc = "idle"
    /\ op = [t \in Tasks |-> "none"]
    /\ pc = [t \in Tasks |-> "idle"]
    /\ ticks = [t \in Tasks |-> 0]
    /\ ret = [t \in Tasks |-> "none"]
    /\ out_res = [t \in Tasks |-> <<>>]
    /\ cont = FALSE
    /\ took = [t \in Tasks |-> FALSE]
    /\ Constructed

\* Reached under Spec: the enabled idle controller with an old result in its queue
\* and an FDONE event pending.
EnabledIdleWithLeftover ==
    /\ fsm = "ENABLE" /\ stat_lock /\ evt_que = <<{}>>
    /\ intr_on /\ clk_en /\ int_ena /\ int_raw /\ ~awb_en /\ win = <<>> /\ acc = {}
    /\ isr_pc = "idle" /\ ~cont
    /\ \A t \in Tasks : pc[t] = "idle"

StartOnce(t) == op[t] = "none" /\ StartCheck(t)

NextStartRace ==
    \/ \E t \in Tasks : StartOnce(t)
    \/ \E t \in Tasks : StartTake(t)
    \/ \E t \in Tasks : StartSetStart(t)
    \/ \E t \in Tasks : StartTrigger(t)
    \/ HwFrameDone
    \/ Isr

StartRaceSpec == InitEnabled /\ [][NextStartRace]_vars

(***************************************************************************)
(* The tasks call only get_oneshot_statistics and                          *)
(* start_continuous_statistics, in any order and at any time, on an        *)
(* enabled idle controller.                                                *)
(***************************************************************************)

NextSampling ==
    \/ \E t \in Tasks : Oneshot(t)
    \/ \E t \in Tasks : StartContinuous(t)
    \/ HwFrameDone
    \/ Isr

SamplingSpec == InitEnabled /\ [][NextSampling]_vars

(***************************************************************************)
(* Properties                                                              *)
(***************************************************************************)

\* Task t, idle, calls API function f in this step.
Calls(t, f) ==
    /\ pc[t] = "idle"
    /\ op'[t] = f
    /\ <<op[t], pc[t], ret[t], out_res[t]>> # <<op'[t], pc'[t], ret'[t], out_res'[t]>>

\* A one-shot caller that has taken the semaphore (line 175), has triggered the engine
\* (line 182) and has not yet given the semaphore back (line 190).
OneshotHolding(t) == took[t] /\ pc[t] \in {"O_recv", "O_stop", "O_enable", "O_give"}

\* A continuous session holds the semaphore: start_continuous has taken it (line 200)
\* and triggered the engine (line 205), and stop_continuous has not given it back.
ContinuousHolding == cont /\ \A t \in Tasks : pc[t] \notin ContinuousAfterTake

Holders ==
    Cardinality({t \in Tasks : OneshotHolding(t)}) + (IF ContinuousHolding THEN 1 ELSE 0)

\* C1: under any interleaving of get_oneshot_statistics and start_continuous callers,
\* at most one caller at a time is between its Gate acquisition and its Gate release
\* with the engine triggered on its behalf (a continuous session counts as one holder
\* from its trigger to the give of stop_continuous).
C1_AtMostOneHolder == Holders <= 1

\* C2: when the Gate wait of get_oneshot_statistics ends without the Gate (the
\* semaphore is empty and the wait is over), the call returns Timeout there and then,
\* and state, engine and Gate are as they were; so state = Started, the cleared Relay
\* and the trigger come only after an acquisition.
C2_GateTimeoutReported ==
    [][\A t \in Tasks :
         (pc[t] = "O_take" /\ pc'[t] # "O_take" /\ ~stat_lock)
            => /\ pc'[t] = "idle"
               /\ ret'[t] = "TIMEOUT"
               /\ UNCHANGED <<fsm, awb_en, stat_lock>>]_vars

LegalFsmSteps ==
    {<<"INIT", "ENABLE">>, <<"ENABLE", "INIT">>, <<"ENABLE", "START">>, <<"START", "ENABLE">>}

\* C3: in every execution every change of fsm is one of Init->Enabled, Enabled->Init,
\* Enabled->Started, Started->Enabled, and the controller leaves Init only by the
\* write of enable (line 150).
C3_LegalTransitions ==
    [][fsm' # fsm =>
         /\ <<fsm, fsm'>> \in LegalFsmSteps
         /\ fsm = "INIT" => \E t \in Tasks : pc[t] = "E_fsm" /\ pc'[t] = "idle"]_vars

\* C4: in every reachable state the engine being enabled implies that the controller
\* is Started: no call leaves the engine running in Enabled or Init.
C4_EngineOnlyWhenStarted == awb_en => fsm = "START"

\* C5: a result that get_oneshot_statistics has received from the Relay comes from a
\* window that was triggered at or after that call's return from xSemaphoreTake.
C5_ResultIsFresh ==
    \A t \in Tasks :
        (pc[t] \in {"O_stop", "O_enable", "O_give"} /\ out_res[t] # <<>>)
            => t \in out_res[t][1]

\* The callers of start_continuous that got past the take of line 200: each of them
\* writes fsm = START, triggers the engine (line 205) and returns ESP_OK.
StartWinners ==
    {t \in Tasks : op[t] = "start" /\ (pc[t] \in ContinuousAfterTake
                                        \/ (pc[t] = "idle" /\ ret[t] = "OK"))}

AllStartsReturned == \A t \in Tasks : op[t] = "start" /\ pc[t] = "idle"

\* C6: of the start_continuous calls racing on an enabled idle controller at most one
\* ever gets past the Gate, and when all have returned exactly one has returned
\* success and triggered the engine and every other one has returned InvalidState.
C6_ExactlyOneStartWins ==
    /\ Cardinality(StartWinners) <= 1
    /\ AllStartsReturned =>
          /\ Cardinality(StartWinners) = 1
          /\ \A t \in Tasks \ StartWinners : ret[t] = "INVALID_STATE"

\* C6 witness: all the racing calls have returned, one with success, and the
\* continuous session is running.
C6_Witness ==
    /\ AllStartsReturned
    /\ \E t \in Tasks : ret[t] = "OK"
    /\ \E t \in Tasks : ret[t] = "INVALID_STATE"
    /\ fsm = "START" /\ awb_en /\ cont

\* The controller is Started because a get_oneshot_statistics call is in flight, and
\* no continuous session is open.
StartedByOneshot ==
    /\ fsm = "START"
    /\ ~cont
    /\ \E u \in Tasks : pc[u] \in OneshotStarted

\* C7: stop_continuous called while the controller is Started only because of a
\* one-shot call in flight fails with InvalidState and leaves engine, state and Gate
\* as they are.
C7_StopOnlyContinuous ==
    [][\A t \in Tasks :
         (Calls(t, "stop") /\ StartedByOneshot)
            => /\ pc'[t] = "idle"
               /\ ret'[t] = "INVALID_STATE"
               /\ UNCHANGED <<fsm, awb_en, stat_lock>>]_vars

\* C8: when get_oneshot_statistics returns Timeout after having taken the Gate and
\* triggered the engine, it hands no result to the caller, and at its return the
\* engine is stopped, the state is Enabled and the Gate is available.
C8_TimeoutLeavesIdle ==
    [][\A t \in Tasks :
         (pc[t] = "O_give" /\ pc'[t] = "idle" /\ ret[t] = "TIMEOUT")
            => /\ out_res[t] = <<>>
               /\ ~awb_en'
               /\ fsm' = "ENABLE"
               /\ stat_lock']_vars

\* The call of task t in this step is refused: it returns InvalidState, and state,
\* Gate, interrupt arming and engine are as they were.
Refused(t) ==
    /\ pc'[t] = "idle"
    /\ ret'[t] = "INVALID_STATE"
    /\ UNCHANGED <<fsm, stat_lock, intr_on, clk_en, int_ena, awb_en>>

\* C9: enable gets past its state check only in Init and disable only in Enabled;
\* called in any other state they return InvalidState and state, Gate, interrupt
\* arming and engine are as they were.
C9_EnableDisableGuard ==
    [][\A t \in Tasks :
         /\ Calls(t, "enable")
               => IF fsm = "INIT" THEN pc'[t] = "E_arm" ELSE Refused(t)
         /\ Calls(t, "disable")
               => IF fsm = "ENABLE" THEN pc'[t] = "D_disarm" ELSE Refused(t)
         /\ (pc'[t] = "E_arm" /\ pc[t] # "E_arm") => (pc[t] = "idle" /\ fsm = "INIT")
         /\ (pc'[t] = "D_disarm" /\ pc[t] # "D_disarm")
               => (pc[t] = "idle" /\ fsm = "ENABLE")]_vars

\* C9 witness: with the controller Started (a continuous session running), one task's
\* enable and another task's disable have both been refused.
C9_Witness ==
    /\ fsm = "START" /\ cont /\ awb_en
    /\ \E t \in Tasks : op[t] = "enable" /\ pc[t] = "idle" /\ ret[t] = "INVALID_STATE"
    /\ \E t \in Tasks : op[t] = "disable" /\ pc[t] = "idle" /\ ret[t] = "INVALID_STATE"

\* An enable call is past its state check: the next enable is under way.
EnableRunning == \E u \in Tasks : pc[u] \in {"E_arm", "E_give", "E_fsm"}

\* C10: when disable returns success (and no next enable is under way yet) the
\* controller is in Init, the interrupt is disarmed and the Gate is unavailable; and
\* in Init the Gate becomes available only by the give of enable (line 149).
C10_DisableLeavesGateTaken ==
    [][/\ \A t \in Tasks :
            (pc[t] = "D_take" /\ pc'[t] = "idle" /\ ~EnableRunning)
               => fsm' = "INIT" /\ ~intr_on' /\ ~int_ena' /\ ~stat_lock'
       /\ (fsm = "INIT" /\ ~stat_lock /\ stat_lock')
               => \E t \in Tasks : pc[t] = "E_give" /\ pc'[t] = "E_fsm"]_vars

\* C14: when the stop_continuous call that closes a continuous session returns, the
\* controller is as it was right after enable: state Enabled, Gate available, engine
\* disabled, whatever number of windows the session has completed.
C14_StartStopRoundTrip ==
    [][\A t \in Tasks :
         (pc[t] = "S_give" /\ pc'[t] = "idle" /\ cont)
            => fsm' = "ENABLE" /\ stat_lock' /\ ~awb_en']_vars

\* C16: a get_oneshot_statistics call with zero ticks that is about to return has
\* either a result in the caller's buffer and ESP_OK, or ESP_ERR_TIMEOUT.
C16_PollOutcome ==
    \A t \in Tasks :
        (pc[t] = "O_give" /\ ticks[t] = 0)
            => \/ ret[t] = "TIMEOUT"
               \/ (ret[t] = "OK" /\ out_res[t] # <<>>)

\* C18: the interrupt handler decides to re-trigger the engine (line 254) only for a
\* continuous session, never while the controller is Started because of a
\* get_oneshot_statistics call in flight.
C18_RearmOnlyContinuous ==
    [][(isr_pc = "check" /\ isr_pc' = "rearm") => ~StartedByOneshot]_vars

(***************************************************************************)
(* A task calls get_oneshot_statistics with timeout_ms < 0, each time on   *)
(* an enabled idle controller: no sampling session open, engine off, no    *)
(* window running, no event pending and the handler not running (an old    *)
(* result may still be queued).  The task is scheduled, the hardware       *)
(* completes every window it has started, and a pending interrupt is       *)
(* served.                                                                 *)
(***************************************************************************)

EnabledIdle ==
    /\ fsm = "ENABLE" /\ stat_lock
    /\ ~awb_en /\ win = <<>> /\ ~int_raw /\ isr_pc = "idle"
    /\ \A t \in Tasks : pc[t] = "idle"

InitEnabledIdle == InitEnabled /\ EnabledIdle

OneshotForeverWhenIdle(t) ==
    /\ EnabledIdle
    /\ OneshotCheck(t)
    /\ ticks'[t] = portMAX_DELAY

OneshotBlocking(t) ==
    \/ OneshotForeverWhenIdle(t) \/ OneshotTake(t)
    \/ OneshotSetStart(t) \/ OneshotReset(t) \/ OneshotTrigger(t) \/ OneshotRecv(t)
    \/ OneshotStop(t) \/ OneshotSetEnable(t) \/ OneshotGive(t)

NextLive ==
    \/ \E t \in Tasks : OneshotBlocking(t)
    \/ HwFrameDone
    \/ Isr

LiveSpec ==
    /\ InitEnabledIdle
    /\ [][NextLive]_vars
    /\ \A t \in Tasks : WF_vars(OneshotBlocking(t))
    /\ WF_vars(HwFrameDone)
    /\ WF_vars(Isr)

\* The blocking call of task t has returned ESP_OK, the controller is Enabled and the
\* semaphore is available.
OneshotReturnedOk(t) ==
    /\ op[t] = "oneshot" /\ pc[t] = "idle" /\ ret[t] = "OK"
    /\ fsm = "ENABLE" /\ stat_lock

steadyVars == <<fsm, stat_lock, evt_que, intr_on, clk_en, int_ena, int_raw, awb_en,
                win, acc, isr_pc, cont, took>>

\* The object heap_caps_calloc returns at line 80.
NextObject == CHOOSE c \in Ctlrs : mem[c] = "unused" /\ \A d \in Ctlrs : d < c => mem[d] # "unused"

\* The call of task t is over: its locals are gone.
Leave(t) == lc' = [lc EXCEPT ![t] = 0]

\* lines 75-88: the allocations.  A failed calloc returns at line 81; a failed queue or
\* semaphore creation goes to err1.
NewAlloc(t) ==
    /\ pc[t] = "idle"
    /\ HandleAtRest
    /\ \E c \in Ctlrs : mem[c] = "unused"
    /\ op' = [op EXCEPT ![t] = "new"]
    /\ out_res' = [out_res EXCEPT ![t] = <<>>]
    /\ \E got \in AllocOutcomes :
          IF got = "no_mem"
            THEN /\ ret' = [ret EXCEPT ![t] = "NO_MEM"]
                 /\ UNCHANGED <<pc, mem, lc>>
            ELSE /\ mem' = [mem EXCEPT ![NextObject] = "building"]
                 /\ lc' = [lc EXCEPT ![t] = NextObject]
                 /\ ret' = [ret EXCEPT ![t] = IF got = "no_mem_obj" THEN "NO_MEM" ELSE "none"]
                 /\ pc' = [pc EXCEPT ![t] = IF got = "no_mem_obj" THEN "N_free" ELSE "N_claim"]
    /\ UNCHANGED <<steadyVars, ticks, slot, intr, hw_by, alg_mode, cur, cbVars>>

\* A claim that takes the slot whatever it holds.
SlotFreeAlways == TRUE

\* line 41
SlotFree == slot = 0

\* line 91, s_isp_claim_awb_controller (lines 35-48), one critical section
NewClaim(t) ==
    /\ pc[t] = "N_claim"
    /\ IF SlotFree
         THEN /\ slot' = lc[t]
              /\ Goto(t, "N_intr")
              /\ UNCHANGED ret
         ELSE /\ ret' = [ret EXCEPT ![t] = "NOT_FOUND"]
              /\ Goto(t, "N_free")
              /\ UNCHANGED slot
    /\ UNCHANGED <<steadyVars, ticks, out_res, mem, intr, hw_by, alg_mode, lc, cur,
                   cbVars>>

\* lines 93-96: esp_intr_alloc_intrstatus, failing with one of its error codes
NewIntr(t) ==
    /\ pc[t] = "N_intr"
    /\ \E e \in {"OK", "NOT_FOUND", "NO_MEM"} :
          IF e # "OK"
            THEN /\ ret' = [ret EXCEPT ![t] = e]
                 /\ Goto(t, "N_declaim")
                 /\ UNCHANGED intr
            ELSE /\ intr' = [intr EXCEPT ![lc[t]] = TRUE]
                 /\ Goto(t, "N_hw")
                 /\ UNCHANGED ret
    /\ UNCHANGED <<steadyVars, ticks, out_res, slot, mem, hw_by, alg_mode, lc, cur,
                   cbVars>>

\* lines 99-101
NewHw(t) ==
    /\ pc[t] = "N_hw"
    /\ awb_en' = FALSE /\ win' = <<>>
    /\ alg_mode' = TRUE
    /\ hw_by' = hw_by \cup {lc[t]}
    /\ Goto(t, "N_validate")
    /\ UNCHANGED <<fsm, stat_lock, evt_que, intr_on, clk_en, int_ena, int_raw, acc, isr_pc,
                   cont, took, ticks, ret, out_res, slot, mem, intr, lc, cur, cbVars>>

\* lines 102-118: a configuration check fails and the call goes to err2, or all pass
\* and the controller is handed out: from now on the application uses this one
NewValidate(t) ==
    /\ pc[t] = "N_validate"
    /\ \E cfg \in CfgOutcomes :
          IF cfg \in InvalidCfgs
            THEN /\ ret' = [ret EXCEPT ![t] = "INVALID_ARG"]
                 /\ Goto(t, "N_declaim")
                 /\ UNCHANGED <<fsm, stat_lock, evt_que, intr_on, cont, took, ticks, mem,
                                lc, cur, cbVars>>
            ELSE /\ mem' = [mem EXCEPT ![lc[t]] = "live"]
                 /\ cur' = lc[t]
                 /\ fsm' = "INIT" /\ stat_lock' = FALSE /\ evt_que' = <<>>
                 /\ intr_on' = FALSE
                 /\ cont' = FALSE /\ took' = [u \in Tasks |-> FALSE]
                 /\ cbs' = 0 /\ user_data' = 0
                 /\ Return(t, "OK")
                 /\ Leave(t)
    /\ UNCHANGED <<clk_en, int_ena, int_raw, awb_en, win, acc, isr_pc, out_res, slot, intr,
                   hw_by, alg_mode>>

\* A declaim that leaves the slot as it is.
DeclaimNothing == UNCHANGED slot

\* s_isp_declaim_awb_controller, lines 50-57: the slot is cleared whatever it holds
Declaim == slot' = 0

\* line 121 (err2)
NewDeclaim(t) ==
    /\ pc[t] = "N_declaim"
    /\ Declaim
    /\ Goto(t, "N_free")
    /\ UNCHANGED <<steadyVars, ticks, ret, out_res, mem, intr, hw_by, alg_mode, lc,
                   cur, cbVars>>

\* s_isp_awb_free_controller, lines 59-73, of an object not freed before
Free(c) ==
    /\ intr' = [intr EXCEPT ![c] = FALSE]
    /\ mem' = [mem EXCEPT ![c] = "freed"]

\* lines 123-125 (err1)
NewFree(t) ==
    /\ pc[t] = "N_free"
    /\ Free(lc[t])
    /\ Return(t, ret[t])
    /\ Leave(t)
    /\ UNCHANGED <<steadyVars, out_res, slot, hw_by, alg_mode, cur, cbVars>>

New(t) ==
    \/ NewAlloc(t) \/ NewClaim(t) \/ NewIntr(t) \/ NewHw(t) \/ NewValidate(t)
    \/ NewDeclaim(t) \/ NewFree(t)

(***************************************************************************)
(* esp_isp_del_awb_controller, lines 128-139.  The handle is one that was  *)
(* handed out and is not freed when the call begins; another delete of the *)
(* same handle can free the object while this call runs, and what this     *)
(* call then reads from it is whatever the freed memory holds.             *)
(***************************************************************************)

\* line 131
DelOwnsSlot(c) == slot = c

\* lines 128-131
DelCheck(t) ==
    /\ pc[t] = "idle"
    /\ HandleAtRest
    /\ op' = [op EXCEPT ![t] = "del"]
    /\ out_res' = [out_res EXCEPT ![t] = <<>>]
    /\ \E c \in Ctlrs :
          /\ mem[c] = "live"
          /\ IF DelOwnsSlot(c)
               THEN /\ lc' = [lc EXCEPT ![t] = c]
                    /\ pc' = [pc EXCEPT ![t] = "X_fsm"]
                    /\ ret' = [ret EXCEPT ![t] = "none"]
               ELSE /\ ret' = [ret EXCEPT ![t] = "INVALID_ARG"]
                    /\ UNCHANGED <<pc, lc>>
    /\ UNCHANGED <<steadyVars, ticks, slot, mem, intr, hw_by, alg_mode, cur, cbVars>>

\* A state check that lets every state but Started through.
DelAllowedUnlessStarted == fsm # "START"

\* line 132, read from an object that is not freed
DelAllowed == fsm = "INIT"

\* line 132
DelState(t) ==
    /\ pc[t] = "X_fsm"
    /\ \E passes \in BOOLEAN :
          /\ mem[lc[t]] # "freed" => passes = DelAllowed
          /\ IF passes
               THEN Goto(t, "X_declaim") /\ UNCHANGED <<ret, ticks, lc>>
               ELSE Return(t, "INVALID_STATE") /\ Leave(t)
    /\ UNCHANGED <<steadyVars, out_res, slot, mem, intr, hw_by, alg_mode, cur, cbVars>>

\* line 133: awb_ctlr->isp_proc read from a freed object is the processor still, or
\* it is not and the slot is not reached
DelDeclaim(t) ==
    /\ pc[t] = "X_declaim"
    /\ \E reached \in BOOLEAN :
          /\ mem[lc[t]] # "freed" => reached
          /\ IF reached THEN Declaim ELSE UNCHANGED slot
    /\ Goto(t, "X_alg")
    /\ UNCHANGED <<steadyVars, ticks, ret, out_res, mem, intr, hw_by, alg_mode, lc,
                   cur, cbVars>>

\* line 135
DelAlgorithmOff(t) ==
    /\ pc[t] = "X_alg"
    /\ alg_mode' = FALSE
    /\ Goto(t, "X_free")
    /\ UNCHANGED <<steadyVars, ticks, ret, out_res, slot, mem, intr, hw_by, lc, cur,
                   cbVars>>

\* lines 136-138; freeing an object a second time changes nothing the model holds
DelFree(t) ==
    /\ pc[t] = "X_free"
    /\ IF mem[lc[t]] = "freed" THEN UNCHANGED <<intr, mem>> ELSE Free(lc[t])
    /\ Return(t, "OK")
    /\ Leave(t)
    /\ UNCHANGED <<steadyVars, out_res, slot, hw_by, alg_mode, cur, cbVars>>

Del(t) == DelCheck(t) \/ DelState(t) \/ DelDeclaim(t) \/ DelAlgorithmOff(t) \/ DelFree(t)

(***************************************************************************)
(* esp_isp_awb_register_event_callbacks, lines 264-280                     *)
(***************************************************************************)

\* A state check that lets Enabled through as well.
RegisterAllowedUnlessStarted == fsm # "START"

\* line 267
RegisterAllowed == fsm = "INIT"

\* lines 264-275: the state check, then (CONFIG_ISP_ISR_IRAM_SAFE) the residency checks
\* of the callback and of user_data
RegisterCheck(t) ==
    /\ pc[t] = "idle"
    /\ HandleUsable
    /\ op' = [op EXCEPT ![t] = "register"]
    /\ out_res' = [out_res EXCEPT ![t] = <<>>]
    /\ \E resident \in BOOLEAN :
          IF ~RegisterAllowed
            THEN ret' = [ret EXCEPT ![t] = "INVALID_STATE"] /\ UNCHANGED pc
            ELSE IF ~resident
                   THEN ret' = [ret EXCEPT ![t] = "INVALID_ARG"] /\ UNCHANGED pc
                   ELSE /\ ret' = [ret EXCEPT ![t] = "none"]
                        /\ pc' = [pc EXCEPT ![t] = "R_cbs"]
    /\ UNCHANGED <<steadyVars, ticks, lifeVars, cbVars>>

\* line 276
RegisterSetCbs(t) ==
    /\ pc[t] = "R_cbs"
    /\ \E f \in CallbackPtrs : cbs' = f
    /\ Goto(t, "R_user")
    /\ UNCHANGED <<steadyVars, ticks, ret, out_res, lifeVars, user_data>>

\* lines 277-279
RegisterSetUser(t) ==
    /\ pc[t] = "R_user"
    /\ \E u \in UserPtrs : user_data' = u
    /\ Return(t, "OK")
    /\ UNCHANGED <<steadyVars, out_res, lifeVars, cbs>>

Register(t) == RegisterCheck(t) \/ RegisterSetCbs(t) \/ RegisterSetUser(t)

(***************************************************************************)
(* The tasks create and delete controllers at any time, also concurrently, *)
(* and between these calls they enable, disable, start and stop the        *)
(* controller handed out last.  A create or delete call and a call of one  *)
(* of the other functions do not overlap (a handle is not used while it is *)
(* being made or destroyed).  No window completes and the handler does not *)
(* run.                                                                    *)
(***************************************************************************)

InitNothingCreated ==
    /\ fsm = "INIT"
    /\ stat_lock = FALSE
    /\ evt_que = <<>>
    /\ intr_on = FALSE /\ clk_en = FALSE /\ int_ena = FALSE
    /\ int_raw = FALSE
    /\ awb_en = FALSE
    /\ win = <<>>
    /\ acc = {}
    /\ isr_pc = "idle"
    /\ op = [t \in Tasks |-> "none"]
    /\ pc = [t \in Tasks |-> "idle"]
    /\ ticks = [t \in Tasks |-> 0]
    /\ ret = [t \in Tasks |-> "none"]
    /\ out_res = [t \in Tasks |-> <<>>]
    /\ cont = FALSE
    /\ took = [t \in Tasks |-> FALSE]
    /\ slot = 0
    /\ mem = [c \in Ctlrs |-> "unused"]
    /\ intr = [c \in Ctlrs |-> FALSE]
    /\ hw_by = {}
    /\ alg_mode = FALSE
    /\ lc = [t \in Tasks |-> 0]
    /\ cur = 0
    /\ cbs = 0
    /\ user_data = 0

NextLife ==
    \/ \E t \in Tasks : New(t)
    \/ \E t \in Tasks : Del(t)
    \/ \E t \in Tasks : Enable(t)
    \/ \E t \in Tasks : Disable(t)
    \/ \E t \in Tasks : StartContinuous(t)
    \/ \E t \in Tasks : StopContinuous(t)

LifeSpec == InitNothingCreated /\ [][NextLife]_vars

(***************************************************************************)
(* The tasks enable, disable, start, stop and register callbacks on one    *)
(* controller, in any order and at any time.  No window completes and the  *)
(* handler does not run.                                                   *)
(***************************************************************************)

NextRegister ==
    \/ \E t \in Tasks : Register(t)
    \/ \E t \in Tasks : Enable(t)
    \/ \E t \in Tasks : Disable(t)
    \/ \E t \in Tasks : StartContinuous(t)
    \/ \E t \in Tasks : StopContinuous(t)

RegisterSpec == Init /\ [][NextRegister]_vars

(***************************************************************************)
(* Properties of creation, deletion and callback registration              *)
(***************************************************************************)

\* C11: a create call that finds the slot claimed (line 41) has configured no
\* hardware and registered no interrupt, leaves the slot with the controller that
\* holds it, goes to err1 with ESP_ERR_NOT_FOUND, and err1 frees the object and returns
\* that code without touching slot or hardware; a claim that finds the slot empty
\* writes its own controller.
C11_ClaimedSlotRefusesCreate ==
    [][\A t \in Tasks :
         /\ (pc[t] = "N_claim" /\ pc'[t] # "N_claim")
               => /\ ~intr[lc[t]] /\ lc[t] \notin hw_by
                  /\ IF slot # 0
                       THEN /\ pc'[t] = "N_free" /\ ret'[t] = "NOT_FOUND"
                            /\ UNCHANGED <<slot, intr, hw_by, alg_mode, awb_en>>
                       ELSE pc'[t] = "N_intr" /\ slot' = lc[t]
         /\ (pc[t] = "N_free" /\ pc'[t] = "idle")
               => /\ ret'[t] = ret[t] /\ ~intr'[lc[t]] /\ mem'[lc[t]] = "freed"
                  /\ UNCHANGED <<slot, hw_by, alg_mode, awb_en>>]_vars

\* C11 witness: a create call is on its way out with ESP_ERR_NOT_FOUND while the slot
\* holds the enabled controller the application uses.
C11_Witness ==
    \E t \in Tasks :
        /\ pc[t] = "N_free" /\ ret[t] = "NOT_FOUND"
        /\ cur # 0 /\ slot = cur /\ slot # lc[t] /\ mem[cur] = "live" /\ fsm = "ENABLE"
        /\ ~intr[lc[t]] /\ lc[t] \notin hw_by

\* C12: a create call that fails a configuration check returns
\* ESP_ERR_INVALID_ARG; its rollback leaves the slot empty at line 121, and when the
\* call returns its interrupt is freed, its object is freed and the slot is not its.
C12_InvalidConfigRollsBack ==
    [][\A t \in Tasks :
         /\ (pc[t] = "N_declaim" /\ pc'[t] # "N_declaim") => slot' = 0
         /\ (pc[t] = "N_free" /\ pc'[t] = "idle" /\ ret[t] = "INVALID_ARG")
               => /\ ret'[t] = "INVALID_ARG"
                  /\ ~intr'[lc[t]] /\ mem'[lc[t]] = "freed" /\ slot' # lc[t]]_vars

\* C12 witness: one create call has returned ESP_ERR_INVALID_ARG after configuring
\* the hardware, and the next create call on the processor has returned ESP_OK.
C12_Witness ==
    \E t, u \in Tasks :
        /\ op[t] = "new" /\ pc[t] = "idle" /\ ret[t] = "INVALID_ARG"
        /\ op[u] = "new" /\ pc[u] = "idle" /\ ret[u] = "OK"
        /\ mem[1] = "freed" /\ 1 \in hw_by /\ ~intr[1]
        /\ mem[2] = "live" /\ slot = 2 /\ cur = 2 /\ intr[2]

\* Task t calls esp_isp_del_awb_controller in this step.
DelCalled(t) == Calls(t, "del")

\* C13: delete gets past line 131 only for the controller the slot holds and past
\* line 132 only in Init, and then empties the slot, so that at its return the slot
\* is not this controller's; refused for the state it returns
\* ESP_ERR_INVALID_STATE and slot, state, interrupt and object are as they were.
\* (Reads of an object another delete has freed are left out.)
C13_DeleteGuard ==
    [][\A t \in Tasks :
         /\ DelCalled(t)
               => IF pc'[t] = "X_fsm"
                    THEN slot = lc'[t] /\ mem[lc'[t]] = "live"
                    ELSE /\ pc'[t] = "idle" /\ ret'[t] = "INVALID_ARG"
                         /\ UNCHANGED <<slot, mem, intr, fsm, stat_lock, alg_mode>>
         /\ (pc[t] = "X_fsm" /\ pc'[t] # "X_fsm" /\ mem[lc[t]] # "freed")
               => IF fsm = "INIT"
                    THEN pc'[t] = "X_declaim"
                    ELSE /\ pc'[t] = "idle" /\ ret'[t] = "INVALID_STATE"
                         /\ UNCHANGED <<slot, mem, intr, fsm, stat_lock, alg_mode,
                                        intr_on, clk_en, int_ena, awb_en>>
         /\ (pc[t] = "X_declaim" /\ pc'[t] # "X_declaim" /\ mem[lc[t]] # "freed")
               => slot' = 0
         /\ (pc[t] = "X_free" /\ pc'[t] = "idle")
               => /\ ret'[t] = "OK" /\ slot' # lc[t]
                  /\ mem'[lc[t]] = "freed" /\ ~intr'[lc[t]]]_vars

\* C13 witness: a delete call has been refused with ESP_ERR_INVALID_STATE on a
\* Started controller, which still owns the slot and its interrupt.
C13_Witness ==
    \E t \in Tasks :
        /\ op[t] = "del" /\ pc[t] = "idle" /\ ret[t] = "INVALID_STATE"
        /\ fsm = "START" /\ cur # 0 /\ slot = cur /\ mem[cur] = "live" /\ intr[cur]

\* C13, the other half: create followed at once by delete has succeeded and the slot
\* is empty.
CreateThenDeleteDone ==
    \E t \in Tasks :
        /\ op[t] = "del" /\ pc[t] = "idle" /\ ret[t] = "OK"
        /\ slot = 0 /\ mem[1] = "freed" /\ mem[2] = "unused"
        /\ \A u \in Tasks : pc[u] = "idle"

\* C17: register_event_callbacks gets past its state check only in Init; called in
\* Enabled or Started it returns ESP_ERR_INVALID_STATE and callback and user data are
\* as they were.
C17_RegisterOnlyInInit ==
    [][\A t \in Tasks :
         /\ Calls(t, "register")
               => IF fsm = "INIT"
                    THEN \/ pc'[t] = "R_cbs"
                         \/ /\ pc'[t] = "idle" /\ ret'[t] = "INVALID_ARG"
                            /\ UNCHANGED cbVars
                    ELSE /\ pc'[t] = "idle" /\ ret'[t] = "INVALID_STATE"
                         /\ UNCHANGED cbVars
         /\ (pc'[t] = "R_cbs" /\ pc[t] # "R_cbs") => (pc[t] = "idle" /\ fsm = "INIT")]_vars

\* C17 witness: with a callback and user data registered and the controller Enabled,
\* a register call has been refused.
C17_Witness ==
    /\ fsm = "ENABLE" /\ cbs # 0 /\ user_data # 0
    /\ \E t \in Tasks : op[t] = "register" /\ pc[t] = "idle" /\ ret[t] = "INVALID_STATE"
    /\ \A t \in Tasks : pc[t] = "idle"

\* C19: the slot goes from a controller to empty only in the declaim of that very
\* controller.
C19_DeclaimOnlyOwnSlot ==
    [][(slot # 0 /\ slot' = 0)
          => \E t \in Tasks : /\ pc[t] \in {"N_declaim", "X_declaim"}
                              /\ pc'[t] # pc[t]
                              /\ lc[t] = slot]_vars

\* C20: when the rollback of a create call that holds both the claim and the
\* interrupt clears the claim (line 121), the interrupt is already freed.
C20_RollbackInReverse ==
    [][\A t \in Tasks :
         (pc[t] = "N_declaim" /\ pc'[t] # "N_declaim" /\ ret[t] = "INVALID_ARG")
            => ~intr[lc[t]]]_vars

====
